---- MODULE Spec2Model ----
(***************************************************************************)
(* Model of the routing/orchestration workflow of                          *)
(* pipeline_orchestration.py: a LangGraph state graph that classifies a    *)
(* question (determine_route), dispatches on the decision (route_to_node)  *)
(* to one of rag_node / sql_node / both_node and returns the final state   *)
(* as a result dictionary (process_question).                              *)
(*                                                                         *)
(* Texts that the code only copies or concatenates are TLA+ strings.  The  *)
(* classifier's output, which the code trims and upper-cases, is a         *)
(* sequence of one-character strings so that strip() and upper() are       *)
(* computed.  Python's None is the empty sequence and a present value v    *)
(* is <<v>>.  A JSON payload is a record whose fields are the keys present.*)
(*                                                                         *)
(* The module also models the callers and the loader around the workflow:  *)
(* the file-backed chat store, the memory window and the chatbot of        *)
(* chatbot.py, the session handlers of gradio_app.py and the batch loop of *)
(* insert_data_vectordb.py, each with a specification of its own.          *)
(***************************************************************************)
EXTENDS Integers, Sequences, FiniteSets, TLC

VARIABLES
    pc,          \* the graph node about to run, "END", or "idle" outside a call
    question,    \* the argument of the current process_question call
    state,       \* the State dictionary threaded through the graph
    calls,       \* the outbound calls of the current invocation, in order
    path,        \* the graph nodes the current invocation has run, in order
    ret,         \* the dictionary process_question returned, if it did
    exc,         \* str(e) of the exception that escaped process_question
    invocations, \* how many times process_question has been called
    stubs,       \* the answers fixed so far when the services are deterministic
    history,     \* what the finished invocations gave, when run against stubs
    file,        \* chat_data.json: for each user id the stored dictionaries
    bots,        \* the MovieChatbot objects alive, each with its own copy of the data
    ui,          \* the chat history list each browser session displays
    audit,       \* the chat calls: the mode, their number, the one that just ended
    memory,      \* a ChatMemory object and every message ever added to it
    ingest       \* create_table_and_insert_data: its locals, the table, its requests

chatVars == <<file, bots, ui, audit>>

vars == <<pc, question, state, calls, path, ret, exc, invocations, stubs, history,
          chatVars, memory, ingest>>

-----------------------------------------------------------------------------
(* Bounds *)

\* number of process_question invocations explored in one behaviour
MaxInvocations == 3

-----------------------------------------------------------------------------
(* Values *)

None == <<>>
Some(v) == <<v>>

\* questions handed to process_question
Questions ==
    { "What are the top 5 most rented comedy movies?",
      "Tell me about movies involving time travel and their plots" }

\* str(e) of an exception raised by requests.post / response.json()
ConnectionErrorDesc == "Connection refused"
JSONDecodeErrorDesc == "Expecting value: line 1 column 1 (char 0)"
\* str(e) of an exception raised by ChatOpenAI(...).invoke
LLMErrorDesc == "Rate limit reached"

\* str(KeyError(k)) is the repr of the key
KeyErrorDesc(k) == "'" \o k \o "'"

Returns(v) == [raises |-> FALSE, value |-> v]
Raises(d) == [raises |-> TRUE, desc |-> d]

\* what the retrieval service can answer: a failed request, a body that is
\* not JSON, the 500 body of rag_endpoint.py, an empty or a proper answer
RagAnswer == "Back to the Future is about time travel."
RagOutcomes ==
    { Raises(ConnectionErrorDesc), Raises(JSONDecodeErrorDesc),
      Returns([detail |-> "Internal Server Error"]),
      Returns([answer |-> ""]),
      Returns([answer |-> RagAnswer]) }

\* what the statistics service can answer
SqlQuery == "SELECT title FROM film LIMIT 5"
SqlAnswer == "Movie A, Movie B"
SqlOutcomes ==
    { Raises(ConnectionErrorDesc), Raises(JSONDecodeErrorDesc),
      Returns([detail |-> "Internal Server Error"]),
      Returns([answer |-> SqlAnswer]),
      Returns([sql_query |-> SqlQuery]),
      Returns([sql_query |-> "", answer |-> ""]),
      Returns([sql_query |-> SqlQuery, answer |-> SqlAnswer]) }

\* what the integration (fusion) generation call can produce
FusedAnswer == "Movie A is a time-travel comedy that is rented often."
FuseOutcomes ==
    { Raises(LLMErrorDesc), Returns(""), Returns(FusedAnswer), Returns(RagAnswer) }

-----------------------------------------------------------------------------
(* str.strip() and str.upper() on sequences of characters *)

LowerLetters ==
    <<"a","b","c","d","e","f","g","h","i","j","k","l","m",
      "n","o","p","q","r","s","t","u","v","w","x","y","z">>
UpperLetters ==
    <<"A","B","C","D","E","F","G","H","I","J","K","L","M",
      "N","O","P","Q","R","S","T","U","V","W","X","Y","Z">>

Whitespace == {" ", "\n", "\t"}

UpperChar(c) ==
    IF \E i \in 1..26 : LowerLetters[i] = c
    THEN UpperLetters[CHOOSE i \in 1..26 : LowerLetters[i] = c]
    ELSE c

Upper(s) == [i \in 1..Len(s) |-> UpperChar(s[i])]

RECURSIVE LStrip(_)
LStrip(s) ==
    IF s # <<>> /\ Head(s) \in Whitespace THEN LStrip(Tail(s)) ELSE s

RECURSIVE RStrip(_)
RStrip(s) ==
    IF s # <<>> /\ s[Len(s)] \in Whitespace
    THEN RStrip(SubSeq(s, 1, Len(s) - 1))
    ELSE s

Strip(s) == RStrip(LStrip(s))

\* the three decision texts route_to_node and the prompt name
RAG == <<"R","A","G">>
SQL == <<"S","Q","L">>
BOTH == <<"B","O","T","H">>

\* what the routing generation call can produce (.content), or its failure
ClassifierOutcomes ==
    { Raises(LLMErrorDesc),
      Returns(RAG), Returns(SQL), Returns(BOTH),
      Returns(<<"r","a","g">>), Returns(<<" ","S","q","l","\n">>),
      Returns(<<"\t","b","o","t","h"," ">>),
      Returns(<<"U","N","K","N","O","W","N">>),
      Returns(<<"R","A","G",".">>),
      Returns(<<>>), Returns(<<" ">>) }

-----------------------------------------------------------------------------
(* The records of the calls made to the outside, each with its outcome *)

ClassifyCall(q, out) ==
    [fn |-> "llm.invoke", purpose |-> "route", question |-> q, outcome |-> out]
RagCall(q, out) == [fn |-> "call_rag_endpoint", question |-> q, outcome |-> out]
SqlCall(q, out) == [fn |-> "call_sql_endpoint", question |-> q, outcome |-> out]
\* variant: the two answers are put under each other's heading in the prompt
FuseCall_swapped(q, sqlAnswer, ragAnswer, out) ==
    [fn |-> "llm.invoke", purpose |-> "integrate", question |-> q,
     source1 |-> ragAnswer, source2 |-> sqlAnswer, outcome |-> out]

FuseCall(q, sqlAnswer, ragAnswer, out) ==
    [fn |-> "llm.invoke", purpose |-> "integrate", question |-> q,
     source1 |-> sqlAnswer, source2 |-> ragAnswer, outcome |-> out]

-----------------------------------------------------------------------------
(* Deterministic services.  With stubs.on each service answers a question  *)
(* the way it answered it before; its first answer to a question is free.  *)

Services == {"route", "integrate", "rag", "sql"}

ServiceOf(call) ==
    IF call.fn = "llm.invoke" THEN call.purpose
    ELSE IF call.fn = "call_rag_endpoint" THEN "rag"
    ELSE "sql"

NoStubs(on) ==
    [on |-> on, answers |-> [svc \in Services |-> [q \in Questions |-> None]]]

\* the answers a stub of service svc is given to choose from
StubAnswers(svc) ==
    CASE svc = "route" ->
            { Raises(LLMErrorDesc), Returns(RAG), Returns(<<" ","S","q","l","\n">>),
              Returns(BOTH), Returns(<<"U","N","K","N","O","W","N">>) }
      [] svc = "rag" ->
            { Raises(ConnectionErrorDesc),
              Returns([detail |-> "Internal Server Error"]),
              Returns([answer |-> RagAnswer]) }
      [] svc = "sql" ->
            { Raises(ConnectionErrorDesc),
              Returns([answer |-> SqlAnswer]),
              Returns([sql_query |-> SqlQuery, answer |-> SqlAnswer]) }
      [] svc = "integrate" ->
            { Raises(LLMErrorDesc), Returns(FusedAnswer) }

\* the outcomes service svc can give to question q
Outcomes(svc, q, all) ==
    IF ~stubs.on THEN all
    ELSE IF stubs.answers[svc][q] # None THEN {stubs.answers[svc][q][1]}
    ELSE StubAnswers(svc)

\* the stubs after the calls made have been answered
Learn(made) ==
    IF ~stubs.on THEN stubs
    ELSE [stubs EXCEPT !.answers =
            [svc \in Services |-> [q \in Questions |->
                IF \E i \in DOMAIN made :
                       ServiceOf(made[i]) = svc /\ made[i].question = q
                THEN Some(made[CHOOSE i \in DOMAIN made :
                              ServiceOf(made[i]) = svc /\ made[i].question = q].outcome)
                ELSE stubs.answers[svc][q]]]]

\* the history after an invocation of q has returned r or raised e
Record(q, r, e) ==
    IF stubs.on
    THEN Append(history, [question |-> q, ret |-> r, exc |-> e])
    ELSE history

-----------------------------------------------------------------------------
(* The graph nodes.  A node maps the State and the outcomes of the calls   *)
(* it may make to the State it returns, the calls it actually made and     *)
(* the exception that escaped it, if any.                                  *)

NodeResult(st, made, raised) == [state |-> st, calls |-> made, raised |-> raised]

\* variant: d.get(k, "") instead of d[k], a missing key reads as empty text
Subscript_get(d, k) == IF k \in DOMAIN d THEN Returns(d[k]) ELSE Returns("")

\* d[k] on a dictionary d: the value, or KeyError(k)
Subscript(d, k) == IF k \in DOMAIN d THEN Returns(d[k]) ELSE Raises(KeyErrorDesc(k))

LastContent(st) == st.messages[Len(st.messages)]

\* variant: a failed routing call is swallowed and the graph goes on
determine_route_fallback(st, llmOut) ==
    LET last_message == LastContent(st)
    IN  IF llmOut.raises
        THEN NodeResult(st, <<ClassifyCall(last_message, llmOut)>>, None)
        ELSE NodeResult([st EXCEPT !.next_step = Upper(Strip(llmOut.value))],
                        <<ClassifyCall(last_message, llmOut)>>, None)

\* variant: the decision text is upper-cased but not trimmed
determine_route_no_strip(st, llmOut) ==
    LET last_message == LastContent(st)
    IN  IF llmOut.raises
        THEN NodeResult(st, <<ClassifyCall(last_message, llmOut)>>, Some(llmOut.desc))
        ELSE NodeResult([st EXCEPT !.next_step = Upper(llmOut.value)],
                        <<ClassifyCall(last_message, llmOut)>>, None)

determine_route(st, llmOut) ==
    LET last_message == LastContent(st)
    IN  IF llmOut.raises
        THEN NodeResult(st, <<ClassifyCall(last_message, llmOut)>>, Some(llmOut.desc))
        ELSE NodeResult([st EXCEPT !.next_step = Upper(Strip(llmOut.value))],
                        <<ClassifyCall(last_message, llmOut)>>, None)

\* variant: no default branch, an unrecognized decision ends the graph
route_to_node_strict(st) ==
    IF st.next_step = RAG THEN "rag_node"
    ELSE IF st.next_step = SQL THEN "sql_node"
    ELSE IF st.next_step = BOTH THEN "both_node"
    ELSE "END"

\* variant: the two single-source branches are exchanged
route_to_node_swapped(st) ==
    IF st.next_step = RAG THEN "sql_node"
    ELSE IF st.next_step = SQL THEN "rag_node"
    ELSE "both_node"

route_to_node(st) ==
    IF st.next_step = RAG THEN "rag_node"
    ELSE IF st.next_step = SQL THEN "sql_node"
    ELSE "both_node"

\* variant: no try/except around the retrieval call
rag_node_reraise(st, ragOut) ==
    LET q == LastContent(st)
        answer == IF ragOut.raises THEN ragOut ELSE Subscript(ragOut.value, "answer")
    IN  IF answer.raises
        THEN NodeResult(st, <<RagCall(q, ragOut)>>, Some(answer.desc))
        ELSE NodeResult([st EXCEPT !.current_response = answer.value],
                        <<RagCall(q, ragOut)>>, None)

\* variant: a failed request is sent a second time before giving up
rag_node_retry(st, ragOut) ==
    LET q == LastContent(st)
        answer == IF ragOut.raises THEN ragOut ELSE Subscript(ragOut.value, "answer")
    IN  IF answer.raises
        THEN NodeResult([st EXCEPT !.error = Some(answer.desc),
                                   !.current_response =
                                       "Error calling RAG endpoint: " \o answer.desc],
                        IF ragOut.raises
                        THEN <<RagCall(q, ragOut), RagCall(q, ragOut)>>
                        ELSE <<RagCall(q, ragOut)>>, None)
        ELSE NodeResult([st EXCEPT !.current_response = answer.value],
                        <<RagCall(q, ragOut)>>, None)

rag_node(st, ragOut) ==
    LET q == LastContent(st)
        answer == IF ragOut.raises THEN ragOut ELSE Subscript(ragOut.value, "answer")
    IN  IF answer.raises
        THEN NodeResult([st EXCEPT !.error = Some(answer.desc),
                                   !.current_response =
                                       "Error calling RAG endpoint: " \o answer.desc],
                        <<RagCall(q, ragOut)>>, None)
        ELSE NodeResult([st EXCEPT !.current_response = answer.value],
                        <<RagCall(q, ragOut)>>, None)

\* variant: no try/except, the failure escapes the node
sql_node_reraise(st, sqlOut) ==
    LET q == LastContent(st)
        sql_query == IF sqlOut.raises THEN sqlOut
                     ELSE Subscript(sqlOut.value, "sql_query")
        answer == IF sql_query.raises THEN sql_query
                  ELSE Subscript(sqlOut.value, "answer")
    IN  IF answer.raises
        THEN NodeResult(st, <<SqlCall(q, sqlOut)>>, Some(answer.desc))
        ELSE NodeResult([st EXCEPT !.current_response =
                                       "SQL Query: " \o sql_query.value
                                       \o "\nAnswer: " \o answer.value],
                        <<SqlCall(q, sqlOut)>>, None)

\* variant: the generated query is not put in front of the answer
sql_node_answer_only(st, sqlOut) ==
    LET q == LastContent(st)
        sql_query == IF sqlOut.raises THEN sqlOut
                     ELSE Subscript(sqlOut.value, "sql_query")
        answer == IF sql_query.raises THEN sql_query
                  ELSE Subscript(sqlOut.value, "answer")
    IN  IF answer.raises
        THEN NodeResult([st EXCEPT !.error = Some(answer.desc),
                                   !.current_response =
                                       "Error calling SQL endpoint: " \o answer.desc],
                        <<SqlCall(q, sqlOut)>>, None)
        ELSE NodeResult([st EXCEPT !.current_response = answer.value],
                        <<SqlCall(q, sqlOut)>>, None)

sql_node(st, sqlOut) ==
    LET q == LastContent(st)
        sql_query == IF sqlOut.raises THEN sqlOut
                     ELSE Subscript(sqlOut.value, "sql_query")
        answer == IF sql_query.raises THEN sql_query
                  ELSE Subscript(sqlOut.value, "answer")
    IN  IF answer.raises
        THEN NodeResult([st EXCEPT !.error = Some(answer.desc),
                                   !.current_response =
                                       "Error calling SQL endpoint: " \o answer.desc],
                        <<SqlCall(q, sqlOut)>>, None)
        ELSE NodeResult([st EXCEPT !.current_response =
                                       "SQL Query: " \o sql_query.value
                                       \o "\nAnswer: " \o answer.value],
                        <<SqlCall(q, sqlOut)>>, None)

\* variant: the handler reports the failure in the response only
CombinedError_unset(st, made, desc) ==
    NodeResult([st EXCEPT !.current_response =
                              "Error processing combined query: " \o desc],
               made, None)

CombinedError(st, made, desc) ==
    NodeResult([st EXCEPT !.error = Some(desc),
                          !.current_response =
                              "Error processing combined query: " \o desc],
               made, None)

\* variant: a failed integration call falls back to the two raw answers
both_node_concat(st, ragOut, sqlOut, fuseOut) ==
    LET q == LastContent(st)
    IN  IF ragOut.raises THEN CombinedError(st, <<RagCall(q, ragOut)>>, ragOut.desc)
        ELSE IF sqlOut.raises
        THEN CombinedError(st, <<RagCall(q, ragOut), SqlCall(q, sqlOut)>>, sqlOut.desc)
        ELSE
        LET sqlAnswer == Subscript(sqlOut.value, "answer")
            ragAnswer == Subscript(ragOut.value, "answer")
        IN  IF sqlAnswer.raises
            THEN CombinedError(st, <<RagCall(q, ragOut), SqlCall(q, sqlOut)>>,
                               sqlAnswer.desc)
            ELSE IF ragAnswer.raises
            THEN CombinedError(st, <<RagCall(q, ragOut), SqlCall(q, sqlOut)>>,
                               ragAnswer.desc)
            ELSE
            LET made == <<RagCall(q, ragOut), SqlCall(q, sqlOut),
                          FuseCall(q, sqlAnswer.value, ragAnswer.value, fuseOut)>>
            IN  IF fuseOut.raises
                THEN NodeResult([st EXCEPT !.error = Some(fuseOut.desc),
                                           !.current_response =
                                               sqlAnswer.value \o "\n" \o ragAnswer.value],
                                made, None)
                ELSE NodeResult([st EXCEPT !.current_response = fuseOut.value],
                                made, None)

\* variant: the retrieval answer is returned instead of the integrated text
both_node_passthrough(st, ragOut, sqlOut, fuseOut) ==
    LET q == LastContent(st)
    IN  IF ragOut.raises THEN CombinedError(st, <<RagCall(q, ragOut)>>, ragOut.desc)
        ELSE IF sqlOut.raises
        THEN CombinedError(st, <<RagCall(q, ragOut), SqlCall(q, sqlOut)>>, sqlOut.desc)
        ELSE
        LET sqlAnswer == Subscript(sqlOut.value, "answer")
            ragAnswer == Subscript(ragOut.value, "answer")
        IN  IF sqlAnswer.raises
            THEN CombinedError(st, <<RagCall(q, ragOut), SqlCall(q, sqlOut)>>,
                               sqlAnswer.desc)
            ELSE IF ragAnswer.raises
            THEN CombinedError(st, <<RagCall(q, ragOut), SqlCall(q, sqlOut)>>,
                               ragAnswer.desc)
            ELSE
            LET made == <<RagCall(q, ragOut), SqlCall(q, sqlOut),
                          FuseCall(q, sqlAnswer.value, ragAnswer.value, fuseOut)>>
            IN  IF fuseOut.raises
                THEN CombinedError(st, made, fuseOut.desc)
                ELSE NodeResult([st EXCEPT !.current_response = ragAnswer.value],
                                made, None)

both_node(st, ragOut, sqlOut, fuseOut) ==
    LET q == LastContent(st)
    IN  IF ragOut.raises THEN CombinedError(st, <<RagCall(q, ragOut)>>, ragOut.desc)
        ELSE IF sqlOut.raises
        THEN CombinedError(st, <<RagCall(q, ragOut), SqlCall(q, sqlOut)>>, sqlOut.desc)
        ELSE
        LET sqlAnswer == Subscript(sqlOut.value, "answer")
            ragAnswer == Subscript(ragOut.value, "answer")
        IN  IF sqlAnswer.raises
            THEN CombinedError(st, <<RagCall(q, ragOut), SqlCall(q, sqlOut)>>, sqlAnswer.desc)
            ELSE IF ragAnswer.raises
            THEN CombinedError(st, <<RagCall(q, ragOut), SqlCall(q, sqlOut)>>, ragAnswer.desc)
            ELSE
            LET made == <<RagCall(q, ragOut), SqlCall(q, sqlOut),
                          FuseCall(q, sqlAnswer.value, ragAnswer.value, fuseOut)>>
            IN  IF fuseOut.raises
                THEN CombinedError(st, made, fuseOut.desc)
                ELSE NodeResult([st EXCEPT !.current_response = fuseOut.value],
                                made, None)

\* variant: the error field starts as an empty text instead of None
initial_state_empty_error(q) ==
    [messages |-> <<q>>, next_step |-> <<>>, current_response |-> "", error |-> Some("")]

initial_state(q) ==
    [messages |-> <<q>>, next_step |-> <<>>, current_response |-> "", error |-> None]

result(q, final_state) ==
    [question |-> q,
     response |-> final_state.current_response,
     route_taken |-> final_state.next_step,
     error |-> final_state.error]

-----------------------------------------------------------------------------
(* chatbot.py: messages, the JSON file store, the memory window *)

Users == {"alice", "bob"}

\* what a user can type
PlainInput == "Plot of Jaws?"
HistoryInput == "What did I ask?"
BlankInput == "  "
UserInputs == {PlainInput, HistoryInput, BlankInput}

HistoryPhrases == {"what did i ask", "what did we talk about", "previous conversation"}

\* the characters of the texts the code inspects
Chars(text) ==
    CASE text = "" -> <<>>
      [] text = "Plot of Jaws?" ->
            <<"P","l","o","t"," ","o","f"," ","J","a","w","s","?">>
      [] text = "What did I ask?" ->
            <<"W","h","a","t"," ","d","i","d"," ","I"," ","a","s","k","?">>
      [] text = "  " ->
            <<" "," ">>
      [] text = "what did i ask" ->
            <<"w","h","a","t"," ","d","i","d"," ","i"," ","a","s","k">>
      [] text = "what did we talk about" ->
            <<"w","h","a","t"," ","d","i","d"," ","w","e"," ","t","a","l","k"," ","a","b","o","u","t">>
      [] text = "previous conversation" ->
            <<"p","r","e","v","i","o","u","s"," ","c","o","n","v","e","r","s","a","t","i","o","n">>

LowerChar(c) ==
    IF \E i \in 1..26 : UpperLetters[i] = c
    THEN LowerLetters[CHOOSE i \in 1..26 : UpperLetters[i] = c]
    ELSE c

Lower(s) == [i \in 1..Len(s) |-> LowerChar(s[i])]

\* sub in s, on sequences of characters
Contains(s, sub) ==
    \E first \in 1..(Len(s) - Len(sub) + 1) :
        SubSeq(s, first, first + Len(sub) - 1) = sub

\* seq[-n:]
SliceLast(seq, n) ==
    IF n = 0 \/ n >= Len(seq) THEN seq
    ELSE SubSeq(seq, Len(seq) - n + 1, Len(seq))

SystemMessage(content) == [cls |-> "SystemMessage", content |-> content]
HumanMessage(content) == [cls |-> "HumanMessage", content |-> content]
AIMessage(content) == [cls |-> "AIMessage", content |-> content]

system_msg ==
    SystemMessage("You are a helpful movie assistant that can:\n"
        \o "1. Answer questions about movie plots, actors, and themes\n"
        \o "2. Provide movie rental statistics and popularity information\n"
        \o "3. Make personalized movie recommendations\n"
        \o "Please be concise and friendly in your responses.")

\* the type add_message stores for a message object
TypeOf(message) ==
    IF message.cls = "SystemMessage" THEN "system"
    ELSE IF message.cls = "HumanMessage" THEN "human"
    ELSE IF message.cls = "AIMessage" THEN "ai"
    ELSE "base"

\* the message object get_user_messages builds from a stored dictionary
ToMessage(m) ==
    IF m.type = "system" THEN SystemMessage(m.content)
    ELSE IF m.type = "human" THEN HumanMessage(m.content)
    ELSE IF m.type = "ai" THEN AIMessage(m.content)
    ELSE [cls |-> "BaseMessage", content |-> m.content]

\* the data of a store without any user; an absent key is the empty list
EmptyData == [u \in Users |-> <<>>]

get_user_messages(data, user_id, limit) ==
    LET messages_dicts ==
            IF limit = None THEN data[user_id] ELSE SliceLast(data[user_id], limit[1])
    IN  [i \in 1..Len(messages_dicts) |-> ToMessage(messages_dicts[i])]

\* FileChatDatabase.add_message: the data appended to, which is then saved
db_add_message(data, user_id, message) ==
    [data EXCEPT ![user_id] =
        Append(@, [type |-> TypeOf(message), content |-> message.content])]

default_max_messages == 5

ChatMemory(max_messages) == [messages |-> <<>>, max_messages |-> max_messages]

\* variant: the window is cut only after it has grown past the limit by one
memory_add_message_late(self, message) ==
    LET appended == Append(self.messages, message)
    IN  [self EXCEPT !.messages =
            IF Len(appended) > self.max_messages * 2 + 1
            THEN SliceLast(appended, self.max_messages * 2)
            ELSE appended]

\* ChatMemory.add_message
memory_add_message(self, message) ==
    LET appended == Append(self.messages, message)
    IN  [self EXCEPT !.messages =
            IF Len(appended) > self.max_messages * 2
            THEN SliceLast(appended, self.max_messages * 2)
            ELSE appended]

RECURSIVE memory_add_all(_, _)
memory_add_all(self, messages) ==
    IF messages = <<>> THEN self
    ELSE memory_add_all(memory_add_message(self, Head(messages)), Tail(messages))

\* MovieChatbot.__init__: the new object, whose database holds what the file
\* held when it was loaded, and the data it saved, if it saved
MovieChatbot(data_on_disk, user_id) ==
    LET previous_messages == get_user_messages(data_on_disk, user_id, None)
        loaded == memory_add_all(ChatMemory(default_max_messages), previous_messages)
    IN  IF previous_messages = <<>>
        THEN LET data == db_add_message(data_on_disk, user_id, system_msg)
             IN  [bot |-> [pc |-> "idle", user_id |-> user_id, data |-> data,
                           memory |-> memory_add_message(loaded, system_msg),
                           user_input |-> "", via |-> "", before |-> <<>>],
                  saved |-> Some(data)]
        ELSE [bot |-> [pc |-> "idle", user_id |-> user_id, data |-> data_on_disk,
                       memory |-> loaded,
                       user_input |-> "", via |-> "", before |-> <<>>],
              saved |-> None]

\* what the services do during one chat call: the routing call fails, or
\* the retrieval branch answers
NoServices ==
    [route |-> Raises(LLMErrorDesc), rag |-> Raises(ConnectionErrorDesc),
     sql |-> Raises(ConnectionErrorDesc), fuse |-> Raises(LLMErrorDesc)]
OrchServices ==
    { NoServices,
      [NoServices EXCEPT !.route = Returns(RAG), !.rag = Returns([answer |-> RagAnswer])] }

\* process_question as a function of the question and of what the services do
process_question(q, services) ==
    LET routed == determine_route(initial_state(q), services.route)
    IN  IF routed.raised # None THEN Raises(routed.raised[1])
        ELSE LET node == route_to_node(routed.state)
                 ran == IF node = "rag_node" THEN rag_node(routed.state, services.rag)
                        ELSE IF node = "sql_node" THEN sql_node(routed.state, services.sql)
                        ELSE both_node(routed.state, services.rag, services.sql,
                                       services.fuse)
             IN  IF ran.raised # None THEN Raises(ran.raised[1])
                 ELSE Returns(result(q, ran.state))

ContextLine(msg) ==
    IF msg.cls = "HumanMessage" THEN "User asked: " \o msg.content \o "\n"
    ELSE IF msg.cls = "AIMessage" THEN "Assistant answered: " \o msg.content \o "\n"
    ELSE ""

RECURSIVE ContextLines(_)
ContextLines(messages) ==
    IF messages = <<>> THEN ""
    ELSE ContextLine(Head(messages)) \o ContextLines(Tail(messages))

\* variant: the orchestrator's exception is not caught
_process_response_reraise(self, text, services) ==
    LET recent == get_user_messages(self.data, self.user_id, Some(3))
        context == IF recent # <<>>
                   THEN "Previous conversation context:\n" \o ContextLines(recent)
                   ELSE ""
        asked == IF context # "" THEN context \o "\nCurrent question: " \o text ELSE text
        out == process_question(asked, services)
    IN  [outcome |-> IF out.raises THEN Raises(out.desc) ELSE Returns(out.value.response),
         context_messages |-> recent, asked |-> asked, orchestrator |-> out]

\* MovieChatbot._process_response: what it returns or raises, the messages it
\* rendered as context, the question it sent and what the orchestrator did
_process_response(self, text, services) ==
    LET recent == get_user_messages(self.data, self.user_id, Some(3))
        context == IF recent # <<>>
                   THEN "Previous conversation context:\n" \o ContextLines(recent)
                   ELSE ""
        asked == IF context # "" THEN context \o "\nCurrent question: " \o text ELSE text
        out == process_question(asked, services)
    IN  [outcome |-> IF out.raises
                     THEN Returns("I encountered an error: " \o out.desc)
                     ELSE Returns(out.value.response),
         context_messages |-> recent, asked |-> asked, orchestrator |-> out]

\* any(phrase in user_input.lower() for phrase in [...])
IsHistoryRequest(user_input) ==
    \E phrase \in HistoryPhrases : Contains(Lower(Chars(user_input)), Chars(phrase))

RECURSIVE HistoryLines(_)
HistoryLines(messages) ==
    IF messages = <<>> THEN <<>>
    ELSE LET msg == Head(messages)
         IN  IF msg.cls = "HumanMessage"
             THEN <<"You asked: " \o msg.content>> \o HistoryLines(Tail(messages))
             ELSE IF msg.cls = "AIMessage"
             THEN <<"I answered: " \o msg.content>> \o HistoryLines(Tail(messages))
             ELSE HistoryLines(Tail(messages))

\* sep.join(lines)
RECURSIVE Join(_, _)
Join(sep, lines) ==
    IF lines = <<>> THEN ""
    ELSE IF Len(lines) = 1 THEN lines[1]
    ELSE lines[1] \o sep \o Join(sep, Tail(lines))

\* chat, the branch of a history request: the reply, nothing is stored
history_reply(self) ==
    LET full_history == get_user_messages(self.data, self.user_id, None)
    IN  IF full_history = <<>>
        THEN "We haven't had any previous conversations yet."
        ELSE "Here's our recent conversation:\n"
                 \o Join("\n", HistoryLines(SliceLast(full_history, 6)))

\* variant: the user message is kept in memory only until the reply is known
chat_begin_unsaved(self, user_input) ==
    LET user_message == HumanMessage(user_input)
    IN  [self EXCEPT !.memory = memory_add_message(@, user_message),
                     !.pc = "responding",
                     !.user_input = user_input,
                     !.before = self.data[self.user_id]]

\* chat, normal flow up to the call of _process_response: the user message is
\* added to the memory and to the database, which saves
chat_begin(self, user_input) ==
    LET user_message == HumanMessage(user_input)
    IN  [self EXCEPT !.memory = memory_add_message(@, user_message),
                     !.data = db_add_message(@, self.user_id, user_message),
                     !.pc = "responding",
                     !.user_input = user_input,
                     !.before = self.data[self.user_id]]

\* chat, normal flow from _process_response on: the reply is added to the
\* memory and to the database, which saves, and is returned
chat_end(self, services) ==
    LET r == _process_response(self, self.user_input, services)
    IN  IF r.outcome.raises
        THEN [bot |-> [self EXCEPT !.pc = "idle", !.user_input = "", !.before = <<>>],
              saved |-> None, reply |-> None, escaped |-> Some(r.outcome.desc),
              response |-> r]
        ELSE LET ai_message == AIMessage(r.outcome.value)
                 data == db_add_message(self.data, self.user_id, ai_message)
             IN  [bot |-> [self EXCEPT !.memory = memory_add_message(@, ai_message),
                                       !.data = data,
                                       !.pc = "idle", !.user_input = "", !.before = <<>>],
                  saved |-> Some(data), reply |-> Some(r.outcome.value), escaped |-> None,
                  response |-> r]

(* gradio_app.py *)

RECURSIVE pair_up(_, _, _)
pair_up(messages, pairs, buffer_user) ==
    IF messages = <<>>
    THEN IF buffer_user # None THEN Append(pairs, <<buffer_user[1], "">>) ELSE pairs
    ELSE LET msg == Head(messages)
         IN  IF msg.cls = "HumanMessage"
             THEN pair_up(Tail(messages),
                          IF buffer_user # None
                          THEN Append(pairs, <<buffer_user[1], "">>) ELSE pairs,
                          Some(msg.content))
             ELSE IF msg.cls = "AIMessage"
             THEN IF buffer_user # None
                  THEN pair_up(Tail(messages),
                               Append(pairs, <<buffer_user[1], msg.content>>), None)
                  ELSE pair_up(Tail(messages), Append(pairs, <<"", msg.content>>), None)
             ELSE pair_up(Tail(messages), pairs, buffer_user)

\* the (user, assistant) pairs rebuilt from the file
load_history_as_chatlog(data_on_disk, user_id) ==
    pair_up(get_user_messages(data_on_disk, user_id, None), <<>>, None)

-----------------------------------------------------------------------------
(* The state machine of process_question *)

\* no chatbot, no session, no stored conversation
Bots == {"b1", "b2"}
NoBot == [pc |-> "none"]
NoSession == [open |-> FALSE, chatbot_history |-> <<>>]
NoChat ==
    /\ file = EmptyData
    /\ bots = [b \in Bots |-> NoBot]
    /\ ui = [u \in Users |-> NoSession]
    /\ audit = [mode |-> "off", chats |-> 0, last |-> None]

NoMemory == memory = [obj |-> None, added |-> <<>>]

NoIngest == ingest = [pc |-> "off"]


Init ==
    /\ pc = "idle"
    /\ question = ""
    /\ state = initial_state("")
    /\ calls = <<>>
    /\ path = <<>>
    /\ ret = None
    /\ exc = None
    /\ invocations = 0
    /\ stubs = NoStubs(FALSE)
    /\ history = <<>>
    /\ NoChat
    /\ NoMemory
    /\ NoIngest

\* the same program called against deterministic stubbed services
InitStub ==
    /\ pc = "idle"
    /\ question = ""
    /\ state = initial_state("")
    /\ calls = <<>>
    /\ path = <<>>
    /\ ret = None
    /\ exc = None
    /\ invocations = 0
    /\ stubs = NoStubs(TRUE)
    /\ history = <<>>
    /\ NoChat
    /\ NoMemory
    /\ NoIngest

\* variant: the State dictionary is a module-level object reused by the calls
ProcessQuestion_shared_state ==
    /\ pc = "idle"
    /\ invocations < MaxInvocations
    /\ \E q \in Questions :
          /\ question' = q
          /\ state' = [state EXCEPT !.messages = <<q>>]
    /\ calls' = <<>>
    /\ path' = <<>>
    /\ ret' = None
    /\ exc' = None
    /\ invocations' = invocations + 1
    /\ pc' = "determine_route"
    /\ UNCHANGED <<stubs, history, chatVars, memory, ingest>>

\* process_question up to workflow.invoke: a fresh State for the question
ProcessQuestion ==
    /\ pc = "idle"
    /\ invocations < MaxInvocations
    /\ \E q \in Questions :
          /\ question' = q
          /\ state' = initial_state(q)
    /\ calls' = <<>>
    /\ path' = <<>>
    /\ ret' = None
    /\ exc' = None
    /\ invocations' = invocations + 1
    /\ pc' = "determine_route"
    /\ UNCHANGED <<stubs, history, chatVars, memory, ingest>>

\* variant: an edge from a branch node back to the entry point on error
Step_reroute(node, r) ==
    /\ calls' = calls \o r.calls
    /\ path' = Append(path, node)
    /\ IF r.raised # None
       THEN /\ exc' = r.raised
            /\ pc' = "idle"
            /\ history' = Record(question, None, r.raised)
            /\ UNCHANGED state
       ELSE /\ state' = r.state
            /\ exc' = exc
            /\ UNCHANGED history
            /\ pc' = IF node = "determine_route" THEN route_to_node(r.state)
                     ELSE IF r.state.error # None /\ Len(path) < 4
                     THEN "determine_route"
                     ELSE "END"
    /\ stubs' = Learn(r.calls)
    /\ UNCHANGED <<question, ret, invocations, chatVars, memory, ingest>>

\* a node whose exception escapes ends workflow.invoke and process_question
Step(node, r) ==
    /\ calls' = calls \o r.calls
    /\ path' = Append(path, node)
    /\ IF r.raised # None
       THEN /\ exc' = r.raised
            /\ pc' = "idle"
            /\ history' = Record(question, None, r.raised)
            /\ UNCHANGED state
       ELSE /\ state' = r.state
            /\ exc' = exc
            /\ UNCHANGED history
            /\ pc' = IF node = "determine_route" THEN route_to_node(r.state) ELSE "END"
    /\ stubs' = Learn(r.calls)
    /\ UNCHANGED <<question, ret, invocations, chatVars, memory, ingest>>

DetermineRoute ==
    /\ pc = "determine_route"
    /\ \E llmOut \in Outcomes("route", question, ClassifierOutcomes) :
          Step("determine_route", determine_route(state, llmOut))

RagNode ==
    /\ pc = "rag_node"
    /\ \E ragOut \in Outcomes("rag", question, RagOutcomes) : Step("rag_node", rag_node(state, ragOut))

SqlNode ==
    /\ pc = "sql_node"
    /\ \E sqlOut \in Outcomes("sql", question, SqlOutcomes) : Step("sql_node", sql_node(state, sqlOut))

BothNode ==
    /\ pc = "both_node"
    /\ \E ragOut \in Outcomes("rag", question, RagOutcomes),
          sqlOut \in Outcomes("sql", question, SqlOutcomes),
          fuseOut \in Outcomes("integrate", question, FuseOutcomes) :
          Step("both_node", both_node(state, ragOut, sqlOut, fuseOut))

\* END: workflow.invoke returns the final State, process_question its result
Return ==
    /\ pc = "END"
    /\ ret' = Some(result(question, state))
    /\ pc' = "idle"
    /\ history' = Record(question, Some(result(question, state)), None)
    /\ UNCHANGED <<question, state, calls, path, exc, invocations, stubs,
                   chatVars, memory, ingest>>

Next ==
    \/ ProcessQuestion
    \/ DetermineRoute
    \/ RagNode
    \/ SqlNode
    \/ BothNode
    \/ Return

Spec == Init /\ [][Next]_vars

SpecStub == InitStub /\ [][Next]_vars

\* Execution is synchronous: once process_question is entered each node and
\* the return run as soon as the calls they wait for have returned or
\* raised.  Nothing obliges the caller to call process_question again.
FairSpec ==
    /\ Spec
    /\ WF_vars(DetermineRoute)
    /\ WF_vars(RagNode)
    /\ WF_vars(SqlNode)
    /\ WF_vars(BothNode)
    /\ WF_vars(Return)

-----------------------------------------------------------------------------
(* chatbot.py and gradio_app.py: chatbots and browser sessions on one file. *)
(* A chat call that asks the orchestrator takes two steps, one up to the    *)
(* request and one from its answer on; where calls do not interleave no     *)
(* other call starts between the two.                                       *)

MaxChats == 2

\* no process_question call of the workflow's own state machine is under way
OrchestratorIdle ==
    /\ pc = "idle"
    /\ question = ""
    /\ state = initial_state("")
    /\ calls = <<>>
    /\ path = <<>>
    /\ ret = None
    /\ exc = None
    /\ invocations = 0
    /\ stubs = NoStubs(FALSE)
    /\ history = <<>>

\* chat_data.json does not exist yet
ChatStart(mode) ==
    /\ OrchestratorIdle
    /\ file = EmptyData
    /\ bots = [b \in Bots |-> NoBot]
    /\ ui = [u \in Users |-> NoSession]
    /\ audit = [mode |-> mode, chats |-> 0, last |-> None]
    /\ NoMemory
    /\ NoIngest

InitChat == ChatStart("sequential")

InitChatInterleaved == ChatStart("interleaved")

\* a call may start: calls interleave, or no call is waiting for its answer
Quiet == audit.mode = "interleaved" \/ \A b \in Bots : bots[b].pc # "responding"

\* the file after a construction
Saved(made) == IF made.saved # None THEN made.saved[1] ELSE file

\* a history request asks nothing
NoResponse == [context_messages |-> <<>>, asked |-> "", orchestrator |-> None]

\* the record of a finished chat call
LastCall(self, user_input, history_request, reply, escaped, response) ==
    Some([user_id |-> self.user_id, user_input |-> user_input, via |-> self.via,
          history_request |-> history_request, reply |-> reply, escaped |-> escaped,
          before |-> IF history_request THEN self.data[self.user_id] ELSE self.before,
          context_messages |-> response.context_messages,
          asked |-> response.asked,
          orchestrator |-> response.orchestrator])

\* chatbot.py __main__: chatbot = MovieChatbot(user_id=...), at the start of
\* a command-line process or on 'clear'
NewChatbot(b, user_id) ==
    /\ Quiet
    /\ bots[b].pc = "none"
    /\ \E made \in {MovieChatbot(file, user_id)} :
          /\ bots' = [bots EXCEPT ![b] = [made.bot EXCEPT !.via = "cli"]]
          /\ file' = Saved(made)
          /\ audit' = [audit EXCEPT !.last = None]
    /\ UNCHANGED <<pc, question, state, calls, path, ret, exc, invocations, stubs,
                   history, ui, memory, ingest>>

\* chatbot.py __main__: response = chatbot.chat(user_input), up to the
\* request to the orchestrator or, for a history request, to the end
Chat(b, user_input) ==
    /\ Quiet
    /\ bots[b].pc = "idle"
    /\ audit.chats < MaxChats
    /\ Strip(Chars(user_input)) # <<>>
    /\ IF IsHistoryRequest(user_input)
       THEN /\ audit' = [audit EXCEPT
                            !.chats = @ + 1,
                            !.last = LastCall(bots[b], user_input, TRUE,
                                              Some(history_reply(bots[b])), None,
                                              NoResponse)]
            /\ UNCHANGED <<file, bots>>
       ELSE \E self \in {chat_begin(bots[b], user_input)} :
                /\ bots' = [bots EXCEPT ![b] = self]
                /\ file' = self.data
                /\ audit' = [audit EXCEPT !.chats = @ + 1, !.last = None]
    /\ UNCHANGED <<pc, question, state, calls, path, ret, exc, invocations, stubs,
                   history, ui, memory, ingest>>

\* the rest of chat, and of user_message_submit when it made the call
Respond(b) ==
    /\ bots[b].pc = "responding"
    /\ \E services \in OrchServices : \E done \in {chat_end(bots[b], services)} :
          LET self == bots[b]
              disk == IF done.saved # None THEN done.saved[1] ELSE file
          IN  /\ file' = disk
              /\ bots' = [bots EXCEPT ![b] = IF self.via = "ui" THEN NoBot ELSE done.bot]
              /\ ui' = IF self.via = "ui" /\ done.reply # None
                       THEN [ui EXCEPT ![self.user_id].chatbot_history =
                                Append(@, <<self.user_input, done.reply[1]>>)]
                       ELSE ui
              /\ audit' = [audit EXCEPT
                              !.last = LastCall([done.bot EXCEPT !.before = self.before],
                                                self.user_input, FALSE,
                                                done.reply, done.escaped,
                                                [done.response EXCEPT
                                                    !.orchestrator = Some(@)])]
    /\ UNCHANGED <<pc, question, state, calls, path, ret, exc, invocations, stubs,
                   history, memory, ingest>>

\* gradio_app.start_session; a blank user id is replaced by a generated one,
\* which is one of the user ids as well
StartSession(user_id) ==
    /\ Quiet
    /\ \E made \in {MovieChatbot(file, user_id)} :
          /\ file' = Saved(made)
          /\ ui' = [ui EXCEPT ![user_id] =
                       [open |-> TRUE,
                        chatbot_history |-> load_history_as_chatlog(Saved(made), user_id)]]
          /\ audit' = [audit EXCEPT !.last = None]
    /\ UNCHANGED <<pc, question, state, calls, path, ret, exc, invocations, stubs,
                   history, bots, memory, ingest>>

\* gradio_app.user_message_submit, up to the request to the orchestrator or,
\* for blank text and for a history request, to the end
UserMessageSubmit(b, user_id, user_text) ==
    /\ Quiet
    /\ ui[user_id].open
    /\ bots[b].pc = "none"
    /\ IF Strip(Chars(user_text)) = <<>>
       THEN UNCHANGED <<file, bots, ui, audit>>
       ELSE /\ audit.chats < MaxChats
            /\ \E made \in {MovieChatbot(file, user_id)} :
               LET bot == [made.bot EXCEPT !.via = "ui"]
               IN  IF IsHistoryRequest(user_text)
                   THEN /\ file' = Saved(made)
                        /\ UNCHANGED bots
                        /\ ui' = [ui EXCEPT ![user_id].chatbot_history =
                                     Append(@, <<user_text, history_reply(bot)>>)]
                        /\ audit' = [audit EXCEPT
                                        !.chats = @ + 1,
                                        !.last = LastCall(bot, user_text, TRUE,
                                                          Some(history_reply(bot)), None,
                                                          NoResponse)]
                   ELSE \E self \in {chat_begin(bot, user_text)} :
                            /\ bots' = [bots EXCEPT ![b] = self]
                            /\ file' = self.data
                            /\ UNCHANGED ui
                            /\ audit' = [audit EXCEPT !.chats = @ + 1, !.last = None]
    /\ UNCHANGED <<pc, question, state, calls, path, ret, exc, invocations, stubs,
                   history, memory, ingest>>

NextChat ==
    \/ \E b \in Bots, user_id \in Users : NewChatbot(b, user_id)
    \/ \E b \in Bots, user_input \in UserInputs : Chat(b, user_input)
    \/ \E b \in Bots : Respond(b)
    \/ \E user_id \in Users : StartSession(user_id)
    \/ \E b \in Bots, user_id \in Users, user_text \in UserInputs :
          UserMessageSubmit(b, user_id, user_text)

\* chatbots and sessions used one call after the other
ChatSpec == InitChat /\ [][NextChat]_vars

NextUi ==
    \/ \E user_id \in Users : StartSession(user_id)
    \/ \E b \in Bots, user_id \in Users, user_text \in UserInputs :
          UserMessageSubmit(b, user_id, user_text)
    \/ \E b \in Bots : Respond(b)

\* the browser sessions alone, one call after the other
UiSpec == InitChat /\ [][NextUi]_vars

\* the browser sessions alone, their handlers running concurrently
UiInterleavedSpec == InitChatInterleaved /\ [][NextUi]_vars

-----------------------------------------------------------------------------
(* chatbot.py: a ChatMemory object on its own *)

MaxAdds == 12

\* the default and two smaller limits
MaxMessagesChoices == {1, 2, default_max_messages}

MemoryMessages == {HumanMessage(PlainInput), AIMessage(RagAnswer)}

NewChatMemory ==
    /\ memory.obj = None
    /\ \E max_messages \in MaxMessagesChoices :
          memory' = [obj |-> Some(ChatMemory(max_messages)), added |-> <<>>]
    /\ UNCHANGED <<pc, question, state, calls, path, ret, exc, invocations, stubs,
                   history, chatVars, ingest>>

MemoryAddMessage ==
    /\ memory.obj # None
    /\ Len(memory.added) < MaxAdds
    /\ \E message \in MemoryMessages :
          memory' = [obj |-> Some(memory_add_message(memory.obj[1], message)),
                     added |-> Append(memory.added, message)]
    /\ UNCHANGED <<pc, question, state, calls, path, ret, exc, invocations, stubs,
                   history, chatVars, ingest>>

NextMemory ==
    \/ NewChatMemory
    \/ MemoryAddMessage

MemorySpec == Init /\ [][NextMemory]_vars

-----------------------------------------------------------------------------
(* insert_data_vectordb.py: the batch loop of create_table_and_insert_data *)

MaxMovies == 22

default_batch_size == 20

\* the batch sizes a caller passes, the default among them
BatchSizes == {1, 2, 3, default_batch_size}

\* a flush goes through, or the embedding request or the insert raises
FlushOutcomes == {"inserted", "embeddings_raise", "executemany_raises"}

\* entering the function: a fresh table, the movies read, two empty lists;
\* a movie is identified by its index in the file
CreateTableAndInsertData ==
    /\ ingest.pc = "off"
    /\ \E batch_size \in BatchSizes, len_movies \in 0..MaxMovies :
          ingest' = [pc |-> "loop", batch_size |-> batch_size, len_movies |-> len_movies,
                     idx |-> 0, batch |-> <<>>, movie_texts |-> <<>>, table |-> <<>>,
                     requests |-> <<>>, inserts |-> <<>>, failed |-> FALSE]
    /\ UNCHANGED <<pc, question, state, calls, path, ret, exc, invocations, stubs,
                   history, chatVars, memory>>

\* one iteration of the for loop, its flush included
LoopIteration ==
    /\ ingest.pc = "loop"
    /\ ingest.idx < ingest.len_movies
    /\ \E outcome \in FlushOutcomes :
          LET batch == Append(ingest.batch, ingest.idx)
              movie_texts == Append(ingest.movie_texts, ingest.idx)
              appended == [ingest EXCEPT !.batch = batch, !.movie_texts = movie_texts,
                                         !.idx = @ + 1]
          IN  IF Len(batch) = ingest.batch_size \/ ingest.idx = ingest.len_movies - 1
              THEN IF outcome = "inserted"
                   THEN ingest' = [appended EXCEPT
                                      !.requests = Append(@, movie_texts),
                                      !.inserts = Append(@, batch),
                                      !.table = @ \o batch,
                                      !.batch = <<>>,
                                      !.movie_texts = <<>>]
                   ELSE IF outcome = "embeddings_raise"
                   THEN ingest' = [appended EXCEPT
                                      !.requests = Append(@, movie_texts),
                                      !.failed = TRUE]
                   ELSE ingest' = [appended EXCEPT
                                      !.requests = Append(@, movie_texts),
                                      !.inserts = Append(@, batch),
                                      !.failed = TRUE]
              ELSE ingest' = appended
    /\ UNCHANGED <<pc, question, state, calls, path, ret, exc, invocations, stubs,
                   history, chatVars, memory>>

\* the loop is over: the cursor and the connection are closed
CloseConnection ==
    /\ ingest.pc = "loop"
    /\ ingest.idx = ingest.len_movies
    /\ ingest' = [ingest EXCEPT !.pc = "done"]
    /\ UNCHANGED <<pc, question, state, calls, path, ret, exc, invocations, stubs,
                   history, chatVars, memory>>

NextIngest ==
    \/ CreateTableAndInsertData
    \/ LoopIteration
    \/ CloseConnection

IngestSpec == Init /\ [][NextIngest]_vars

-----------------------------------------------------------------------------
(* Vocabulary of the properties *)

\* the last process_question call is over (it returned or raised)
Finished == pc = "idle" /\ invocations > 0

Decisions == {RAG, SQL, BOTH}

Ran(node) == \E i \in DOMAIN path : path[i] = node

Made(fn) == \E i \in DOMAIN calls : calls[i].fn = fn

ClientCalls ==
    {i \in DOMAIN calls : calls[i].fn \in {"call_rag_endpoint", "call_sql_endpoint"}}

FailedClientCalls == {i \in ClientCalls : calls[i].outcome.raises}

FuseCalls ==
    {i \in DOMAIN calls : calls[i].fn = "llm.invoke" /\ calls[i].purpose = "integrate"}

ClassifierFailed ==
    calls # <<>> /\ calls[1].fn = "llm.invoke" /\ calls[1].outcome.raises

EndpointName(fn) == IF fn = "call_rag_endpoint" THEN "RAG" ELSE "SQL"

InlineError(fn, desc) == "Error calling " \o EndpointName(fn) \o " endpoint: " \o desc

-----------------------------------------------------------------------------
(* C1..C10: the contract of process_question under failures *)

\* C1: whatever the clients return or raise, on any route, the result of
\* process_question has a non-empty response.
C1_ResponseNonEmpty == ret # None => ret[1].response # ""

\* C2: on a single-source route whose client call raises, process_question
\* returns normally, the response is 'Error calling <RAG|SQL> endpoint:
\* <description>', error is non-null and route_taken is the classified route.
C2_SingleRouteFailureInline ==
    \A node \in {"rag_node", "sql_node"} :
        (Finished /\ Ran(node) /\ FailedClientCalls # {}) =>
            /\ exc = None
            /\ ret # None
            /\ \A i \in FailedClientCalls :
                   ret[1].response = InlineError(calls[i].fn, calls[i].outcome.desc)
            /\ ret[1].error # None
            /\ ret[1].route_taken = (IF node = "rag_node" THEN RAG ELSE SQL)

C2_Witness ==
    /\ Finished /\ Ran("sql_node") /\ FailedClientCalls # {}
    /\ ret # None
    /\ ret[1].response = "Error calling SQL endpoint: " \o ConnectionErrorDesc

\* C3: every invocation that enters the BOTH branch calls the retrieval
\* client and the statistics client, whether or not the other call failed.
C3_BothClientsCalled ==
    (Finished /\ Ran("both_node")) =>
        Made("call_rag_endpoint") /\ Made("call_sql_endpoint")

\* C4: on the BOTH branch a failed client call is replaced by its inline
\* error description and the Fuser is still invoked with that text.
C4_FuserGetsDegradedText ==
    (Finished /\ Ran("both_node")) =>
        \A i \in FailedClientCalls :
            \E j \in FuseCalls :
                LET text == InlineError(calls[i].fn, calls[i].outcome.desc)
                IN  IF calls[i].fn = "call_rag_endpoint"
                    THEN calls[j].source2 = text
                    ELSE calls[j].source1 = text

\* C5: a normalized classifier output other than RAG, SQL and BOTH makes the
\* graph run both_node: never a single-source node, never no node at all.
C5_UnrecognizedRoutesToBoth ==
    (Len(path) >= 1 /\ ~ClassifierFailed /\ state.next_step \notin Decisions) =>
        IF Len(path) = 1
        THEN pc = "both_node"
        ELSE path = <<"determine_route", "both_node">>

C5_Witness ==
    /\ Finished
    /\ ret # None
    /\ path = <<"determine_route", "both_node">>
    /\ state.next_step = <<"U","N","K","N","O","W","N">>

\* C6: route_taken of every returned result is one of the three route values,
\* also when the classifier's text was unrecognized and both_node ran.
C6_RouteTakenInEnumeration == ret # None => ret[1].route_taken \in Decisions

\* C7: when the classifier's generation call fails, the caller still gets a
\* result with error populated and a non-empty response, not an exception.
C7_ClassifierFailureReturnsResult ==
    (Finished /\ ClassifierFailed) =>
        /\ exc = None
        /\ ret # None
        /\ ret[1].error # None
        /\ ret[1].response # ""

\* C8: a failed classifier call is terminal: in that invocation neither
\* client nor the Fuser is called and no branch node runs.
C8_ClassifierFailureIsTerminal ==
    ClassifierFailed =>
        /\ Len(calls) = 1
        /\ path = <<"determine_route">>
        /\ pc = "idle"
        /\ exc = Some(calls[1].outcome.desc)
        /\ ret = None

C8_Witness == Finished /\ ClassifierFailed /\ exc = Some(LLMErrorDesc)

\* C9: when both clients succeed and the Fuser's call fails, error is the
\* failure's description and the response is an error-description string,
\* not a combination of the two raw answers.
C9_FusionFailureIsError ==
    \A j \in FuseCalls :
        (Finished /\ calls[j].outcome.raises) =>
            /\ ret # None
            /\ ret[1].error = Some(calls[j].outcome.desc)
            /\ ret[1].response =
                   "Error processing combined query: " \o calls[j].outcome.desc
            /\ ret[1].response \notin
                   { calls[j].source1, calls[j].source2,
                     calls[j].source1 \o calls[j].source2,
                     calls[j].source2 \o calls[j].source1,
                     calls[j].source1 \o "\n" \o calls[j].source2,
                     calls[j].source2 \o "\n" \o calls[j].source1 }

C9_Witness ==
    /\ Finished
    /\ ret # None
    /\ \E j \in FuseCalls :
          /\ calls[j].outcome.raises
          /\ calls[j].source1 = SqlAnswer
          /\ calls[j].source2 = RagAnswer

\* C10: on every route, when a client call failed the result's error is
\* non-null and equals the description of that failure, and a response text
\* is produced as well.
C10_ErrorIsFailureDescription ==
    (Finished /\ FailedClientCalls # {}) =>
        /\ ret # None
        /\ ret[1].error # None
        /\ \A i \in FailedClientCalls : ret[1].error = Some(calls[i].outcome.desc)
        /\ ret[1].response # ""

C10_Witness ==
    /\ Finished
    /\ ret # None
    /\ Ran("both_node")
    /\ \E i \in FailedClientCalls :
          /\ calls[i].fn = "call_sql_endpoint"
          /\ ret[1].error = Some(JSONDecodeErrorDesc)

-----------------------------------------------------------------------------
(* C11..C16: when error is set, the shape of the graph, dispatch *)

BranchNodes == {"rag_node", "sql_node", "both_node"}

\* the keys the branch node that ran reads from a client's payload
KeysRead(fn) ==
    IF fn = "call_sql_endpoint" /\ Ran("sql_node")
    THEN {"sql_query", "answer"}
    ELSE {"answer"}

\* client calls that returned a payload without a key the node reads
IncompleteClientCalls ==
    {i \in ClientCalls :
        /\ ~calls[i].outcome.raises
        /\ ~(KeysRead(calls[i].fn) \subseteq DOMAIN calls[i].outcome.value)}

FailedFuseCalls == {j \in FuseCalls : calls[j].outcome.raises}

\* C11 as stated: error is non-null only if a client call failed; when every
\* client call that was made succeeded, error is null.
C11_ErrorOnlyOnClientFailure ==
    (ret # None /\ FailedClientCalls = {} /\ IncompleteClientCalls = {}) =>
        ret[1].error = None

\* C11 amended: error is non-null only if a client call raised, a client's
\* payload lacked a key the node reads, or the Fuser's generation call
\* failed; when none of these happened, error is null.
C11_ErrorOnlyOnFailure ==
    (ret # None /\ FailedClientCalls = {} /\ IncompleteClientCalls = {}
                /\ FailedFuseCalls = {}) =>
        ret[1].error = None

C11_Witness ==
    /\ Finished
    /\ ret # None
    /\ Ran("both_node")
    /\ FuseCalls # {}
    /\ FailedFuseCalls = {}
    /\ ret[1].error = None

\* C12 as stated: in every invocation the classifier runs once and exactly
\* one branch node runs once after it and leads to END.
C12_OneBranchInEveryInvocation ==
    Finished => \E b \in BranchNodes : path = <<"determine_route", b>>

\* C12 amended: in every invocation the classifier runs exactly once, before
\* any client call; unless the classifier's call fails (then no branch node
\* runs), exactly one branch node runs exactly once after it and leads
\* directly to END; there is no loop and no second routing decision.
C12_OneClassificationOneBranch ==
    /\ Len(path) <= 2
    /\ \A i \in DOMAIN path :
          IF i = 1 THEN path[i] = "determine_route" ELSE path[i] \in BranchNodes
    /\ \A i \in DOMAIN calls :
          (calls[i].fn = "llm.invoke" /\ calls[i].purpose = "route") <=> i = 1
    /\ (calls # <<>>) => (path # <<>>)
    /\ Len(path) = 1 => (IF ClassifierFailed THEN pc = "idle" ELSE pc \in BranchNodes)
    /\ Len(path) = 2 => pc \in {"END", "idle"}
    /\ (Finished /\ ~ClassifierFailed) =>
          \E b \in BranchNodes : path = <<"determine_route", b>>
    /\ pc = "determine_route" => path = <<>>
    /\ pc \in BranchNodes => Len(path) = 1
    /\ pc = "END" => Len(path) = 2

C12_Witness ==
    /\ Finished
    /\ ret # None
    /\ path = <<"determine_route", "sql_node">>
    /\ Len(calls) = 2
    /\ calls[2].fn = "call_sql_endpoint"
    /\ ret[1].error # None

\* C13: with decision RAG only the retrieval client is called, with decision
\* SQL only the statistics client, and the Fuser's generation call happens
\* only in invocations that ran both_node.
C13_DispatchOnlyRoutedSource ==
    /\ (Len(path) >= 1 /\ state.next_step = RAG) =>
          /\ ~Made("call_sql_endpoint")
          /\ FuseCalls = {}
          /\ Finished => Made("call_rag_endpoint")
    /\ (Len(path) >= 1 /\ state.next_step = SQL) =>
          /\ ~Made("call_rag_endpoint")
          /\ FuseCalls = {}
          /\ Finished => Made("call_sql_endpoint")
    /\ FuseCalls # {} => Ran("both_node")

C13_Witness ==
    /\ Finished
    /\ ret # None
    /\ state.next_step = RAG
    /\ Made("call_rag_endpoint")
    /\ ~Made("call_sql_endpoint")

\* C14: within one invocation each client is requested at most once on every
\* route, also after that request has failed.
C14_NoRetry ==
    \A fn \in {"call_rag_endpoint", "call_sql_endpoint"} :
        Cardinality({i \in DOMAIN calls : calls[i].fn = fn}) <= 1

C14_Witness ==
    /\ Finished
    /\ ret # None
    /\ Ran("rag_node")
    /\ FailedClientCalls # {}
    /\ Cardinality(ClientCalls) = 1

\* C15: on the SQL route with a successful statistics call the response is
\* 'SQL Query: <sql_query>' followed by 'Answer: <answer>' and error is null.
C15_SqlResponseHasQueryAndAnswer ==
    \A i \in ClientCalls :
        (Finished /\ Ran("sql_node") /\ i \notin FailedClientCalls
                  /\ i \notin IncompleteClientCalls) =>
            /\ ret # None
            /\ ret[1].response =
                   "SQL Query: " \o calls[i].outcome.value.sql_query
                   \o "\nAnswer: " \o calls[i].outcome.value.answer
            /\ ret[1].error = None
            /\ ret[1].route_taken = SQL

C15_Witness ==
    /\ Finished
    /\ Ran("sql_node")
    /\ ret # None
    /\ ret[1].response = "SQL Query: " \o SqlQuery \o "\nAnswer: " \o SqlAnswer

\* C16: on every route, when a client's payload lacks the answer field the
\* result has error non-null and the response is an inline error description,
\* not an exception and not an answer.
C16_MalformedPayloadIsError ==
    (Finished /\ \E i \in ClientCalls :
                    /\ ~calls[i].outcome.raises
                    /\ "answer" \notin DOMAIN calls[i].outcome.value) =>
        /\ exc = None
        /\ ret # None
        /\ ret[1].error # None
        /\ ret[1].response =
               (IF Ran("rag_node") THEN "Error calling RAG endpoint: "
                ELSE IF Ran("sql_node") THEN "Error calling SQL endpoint: "
                ELSE "Error processing combined query: ") \o ret[1].error[1]

C16_Witness ==
    /\ Finished
    /\ ret # None
    /\ Ran("both_node")
    /\ FailedClientCalls = {}
    /\ ret[1].response = "Error processing combined query: " \o KeyErrorDesc("answer")

-----------------------------------------------------------------------------
(* C18, C19: the integrated text, the normalization of the decision *)

\* C18 as stated: on the BOTH route with both sources succeeding the response
\* differs from the raw retrieval answer and from the raw statistics answer.
C18_ResponseDistinctFromSources ==
    \A j \in FuseCalls :
        (Finished /\ ret # None) =>
            ret[1].response \notin {calls[j].source1, calls[j].source2}

\* C18 amended: on the BOTH route with both sources succeeding the response
\* is the Fuser's output, or the error text when the Fuser fails, never a
\* copy of a source answer made by the orchestrator: it differs from both raw
\* answers unless the Fuser's own generated text equals one of them.
C18_DistinctUnlessFuserEchoes ==
    \A j \in FuseCalls :
        Finished =>
            /\ ret # None
            /\ ret[1].response =
                   (IF calls[j].outcome.raises
                    THEN "Error processing combined query: " \o calls[j].outcome.desc
                    ELSE calls[j].outcome.value)
            /\ (calls[j].outcome.raises
                    \/ calls[j].outcome.value \notin {calls[j].source1, calls[j].source2})
                => ret[1].response \notin {calls[j].source1, calls[j].source2}

C18_Witness ==
    /\ Finished
    /\ ret # None
    /\ \E j \in FuseCalls :
          /\ calls[j].source1 = SqlAnswer
          /\ calls[j].source2 = RagAnswer
          /\ ret[1].response = FusedAnswer

\* the branch node of a decision value
NodeOf(decision) ==
    IF decision = RAG THEN "rag_node"
    ELSE IF decision = SQL THEN "sql_node"
    ELSE "both_node"

\* raw is the decision value with some of its letters in lower case and
\* with whitespace before and after it
IsVariantOf(raw, decision) ==
    \E first \in 1..(Len(raw) + 1) :
        LET last == first + Len(decision) - 1
        IN  /\ last <= Len(raw)
            /\ \A k \in 1..(first - 1) : raw[k] \in Whitespace
            /\ \A k \in (last + 1)..Len(raw) : raw[k] \in Whitespace
            /\ \A k \in 1..Len(decision) :
                   \/ raw[first + k - 1] = decision[k]
                   \/ \E n \in 1..26 : /\ UpperLetters[n] = decision[k]
                                        /\ LowerLetters[n] = raw[first + k - 1]

\* C19: a classifier output that differs from RAG, SQL or BOTH only by
\* surrounding whitespace or letter case selects the same branch and gives
\* the same route_taken as the canonical value.
C19_NormalizedBeforeMatch ==
    \A decision \in Decisions :
        (/\ calls # <<>>
         /\ ~calls[1].outcome.raises
         /\ IsVariantOf(calls[1].outcome.value, decision)) =>
            /\ state.next_step = decision
            /\ Len(path) = 1 => pc = NodeOf(decision)
            /\ Len(path) = 2 => path[2] = NodeOf(decision)
            /\ ret # None => ret[1].route_taken = decision

C19_Witness ==
    /\ Finished
    /\ ret # None
    /\ calls[1].outcome = Returns(<<" ","S","q","l","\n">>)
    /\ Ran("sql_node")
    /\ ret[1].route_taken = SQL

-----------------------------------------------------------------------------
(* C20: termination *)

\* the states of the workflow after START
CLASSIFIED == pc \in BranchNodes /\ path = <<"determine_route">>

RETRIEVAL_DONE == pc = "END" /\ path = <<"determine_route", "rag_node">>

STATISTICS_DONE == pc = "END" /\ path = <<"determine_route", "sql_node">>

BOTH_DONE == pc = "END" /\ path = <<"determine_route", "both_node">>

AtEND ==
    /\ pc = "idle"
    /\ ret # None
    /\ exc = None
    /\ \E b \in BranchNodes : path = <<"determine_route", b>>

\* C20: when every external call returns or raises, an invocation that has
\* passed classification reaches exactly one of RETRIEVAL_DONE,
\* STATISTICS_DONE and BOTH_DONE and from there END, whatever client and
\* Fuser failures occur.
C20_ClassifiedReachesEnd ==
    /\ CLASSIFIED ~> (RETRIEVAL_DONE \/ STATISTICS_DONE \/ BOTH_DONE)
    /\ (RETRIEVAL_DONE \/ STATISTICS_DONE \/ BOTH_DONE) ~> AtEND

C20_Witness ==
    /\ AtEND
    /\ Ran("both_node")
    /\ Len(calls) = 3
    /\ calls[3].fn = "call_sql_endpoint"
    /\ calls[3].outcome.raises

-----------------------------------------------------------------------------
(* C17: no state is carried from one invocation to the next *)

\* C17: every invocation starts from the same fresh State (empty next_step,
\* empty response, null error), and against deterministic stubbed services
\* two invocations with the same question give the same route_taken and the
\* same result, whatever invocations ran in between.
C17_SameQuestionSameResult ==
    /\ pc = "determine_route" =>
          /\ state = initial_state(question)
          /\ state.next_step = <<>>
          /\ state.current_response = ""
          /\ state.error = None
    /\ \A i, j \in DOMAIN history :
          history[i].question = history[j].question =>
              /\ history[i].ret = history[j].ret
              /\ history[i].exc = history[j].exc

C17_Witness ==
    /\ Len(history) = 3
    /\ history[1].question = history[3].question
    /\ history[2].question # history[1].question
    /\ history[1].ret # None
    /\ history[1].ret[1].error = None
    /\ history[2].ret # None
    /\ history[2].ret[1].error # None
    /\ history[3] = history[1]

-----------------------------------------------------------------------------
(* C21: the integration call *)

\* C21: on the BOTH route the Fuser is called at most once, after both
\* client calls have returned, with the question, the statistics answer and
\* the retrieval answer; when it succeeds the response is exactly its output
\* and error is null.
C21_FuserCalledOnceWithBothAnswers ==
    /\ Cardinality(FuseCalls) <= 1
    /\ \A j \in FuseCalls :
          /\ j = 4
          /\ calls[2].fn = "call_rag_endpoint"
          /\ calls[3].fn = "call_sql_endpoint"
          /\ ~calls[2].outcome.raises
          /\ ~calls[3].outcome.raises
          /\ calls[j].question = question
          /\ calls[j].source1 = calls[3].outcome.value.answer
          /\ calls[j].source2 = calls[2].outcome.value.answer
          /\ (Finished /\ ~calls[j].outcome.raises) =>
                /\ ret # None
                /\ ret[1].response = calls[j].outcome.value
                /\ ret[1].error = None
    /\ (Finished /\ Ran("both_node") /\ FailedClientCalls = {}
                 /\ IncompleteClientCalls = {}) => Cardinality(FuseCalls) = 1

C21_Witness ==
    /\ Finished
    /\ ret # None
    /\ Len(calls) = 4
    /\ calls[4].source1 = SqlAnswer
    /\ calls[4].source2 = RagAnswer
    /\ calls[4].outcome = Returns(FusedAnswer)
    /\ ret[1].response = FusedAnswer
    /\ ret[1].error = None

-----------------------------------------------------------------------------
(* Ingestion: the size of the batches *)

Occurrences(seq, x) == Cardinality({i \in DOMAIN seq : seq[i] = x})

\* C29: every embedding request and every batch insert holds at most
\* batch_size movies, also after an earlier batch failed and was rolled back,
\* and no movie is in the table more than once.
C29_BatchesWithinBatchSize ==
    ingest.pc # "off" =>
        /\ \A i \in DOMAIN ingest.requests : Len(ingest.requests[i]) <= ingest.batch_size
        /\ \A i \in DOMAIN ingest.inserts : Len(ingest.inserts[i]) <= ingest.batch_size
        /\ \A m \in 0..(ingest.len_movies - 1) : Occurrences(ingest.table, m) <= 1

-----------------------------------------------------------------------------
(* The memory window *)

Min(a, b) == IF a <= b THEN a ELSE b

\* C25: the window never holds more than 2 * max_messages messages, and it
\* is exactly the most recent messages ever added, in the order they were
\* added: the last min(number added, 2 * max_messages) of them.
C25_WindowIsRecentSuffix ==
    memory.obj # None =>
        LET self == memory.obj[1]
            n == Len(memory.added)
            kept == Min(n, 2 * self.max_messages)
        IN  /\ Len(self.messages) <= 2 * self.max_messages
            /\ self.messages = SubSeq(memory.added, n - kept + 1, n)

\* the default window after it has dropped its two oldest messages
C25_Witness ==
    /\ memory.obj # None
    /\ memory.obj[1].max_messages = default_max_messages
    /\ Len(memory.added) = 2 * default_max_messages + 2
    /\ Len(memory.obj[1].messages) = 2 * default_max_messages
    /\ memory.added[1] # memory.obj[1].messages[1]

-----------------------------------------------------------------------------
(* The chatbot and the sessions *)

\* no chat call is waiting for the orchestrator
AllIdle == \A b \in Bots : bots[b].pc # "responding"

\* a chat call has just ended: a history request, or one that asked
JustAnswered == audit.last # None /\ ~audit.last[1].history_request
JustListed == audit.last # None /\ audit.last[1].history_request

MessagesOf(dicts) == [i \in 1..Len(dicts) |-> ToMessage(dicts[i])]

HumanDict(content) == [type |-> "human", content |-> content]
AIDict(content) == [type |-> "ai", content |-> content]

\* C22: the context put before the question is made only of turns that
\* precede the current user input (some last turns of the conversation as it
\* was stored before the call), and the current input follows the label
\* 'Current question:' at the end of what is sent.
C22_ContextOnlyPrecedingTurns ==
    JustAnswered =>
        LET call == audit.last[1]
            preceding == MessagesOf(call.before)
        IN  /\ \E n \in 0..3 :
                  call.context_messages = IF n = 0 THEN <<>> ELSE SliceLast(preceding, n)
            /\ call.context_messages # <<>> =>
                  call.asked = "Previous conversation context:\n"
                                   \o ContextLines(call.context_messages)
                                   \o "\nCurrent question: " \o call.user_input

\* C23: a chat call that asks the orchestrator does not raise; when
\* process_question raised, the reply is 'I encountered an error: ' followed
\* by the exception's text; the reply is returned and the store then holds
\* what the chatbot's database held before the call followed by exactly the
\* user message and the assistant message with that reply.
C23_OrchestratorFailureBecomesReply ==
    JustAnswered =>
        LET call == audit.last[1]
        IN  /\ call.escaped = None
            /\ call.reply # None
            /\ call.orchestrator[1].raises =>
                  call.reply = Some("I encountered an error: " \o call.orchestrator[1].desc)
            /\ ~call.orchestrator[1].raises =>
                  call.reply = Some(call.orchestrator[1].value.response)
            /\ call.reply # None =>
                  file[call.user_id] =
                      call.before \o <<HumanDict(call.user_input), AIDict(call.reply[1])>>

\* a second question whose routing call failed, answered and stored
C23_Witness ==
    /\ JustAnswered
    /\ audit.last[1].orchestrator = Some(Raises(LLMErrorDesc))
    /\ audit.last[1].reply = Some("I encountered an error: Rate limit reached")
    /\ Len(file[audit.last[1].user_id]) = 5
    /\ file[audit.last[1].user_id][5] = AIDict("I encountered an error: Rate limit reached")

\* the step is a history request
HistoryRequestStep == audit'.chats = audit.chats + 1 /\ audit'.last # None

\* C24: the reply to a history request of a user who has had no exchange is
\* "We haven't had any previous conversations yet.", and a history request
\* adds nothing to the store and nothing to a memory window (the handler of
\* the browser constructs its chatbot first, which stores the system message
\* of a user who has none: that is not the history request's doing).
C24_HistoryRequestOfNewUser ==
    /\ [](JustListed =>
            LET call == audit.last[1]
            IN  (\A i \in DOMAIN call.before : call.before[i].type \notin {"human", "ai"})
                    => call.reply = Some("We haven't had any previous conversations yet."))
    /\ [][HistoryRequestStep =>
             /\ \A u \in Users :
                   \/ file'[u] = file[u]
                   \/ file[u] = <<>> /\ file'[u] = <<[type |-> "system",
                                                      content |-> system_msg.content]>>
             /\ \A b \in Bots : bots[b].pc # "none" => bots'[b] = bots[b]]_vars

\* one system message, then user and assistant messages in turn
IsConversation(dicts) ==
    /\ Len(dicts) >= 1
    /\ Len(dicts) % 2 = 1
    /\ \A i \in DOMAIN dicts :
          dicts[i].type = IF i = 1 THEN "system" ELSE IF i % 2 = 0 THEN "human" ELSE "ai"

\* a chatbot was constructed for the user
HasChatbot(u) ==
    \/ ui[u].open
    \/ \E b \in Bots : bots[b].pc # "none" /\ bots[b].user_id = u

\* the step is neither the first nor the second half of a chat call
ConstructionStep ==
    /\ audit'.chats = audit.chats
    /\ \A b \in Bots : bots[b].pc = "responding" => bots'[b] = bots[b]

\* C26: where calls do not interleave, the stored conversation of every
\* user a chatbot was constructed for is one system message followed by user
\* and assistant messages in turn; constructing a chatbot for a user who has
\* stored messages leaves them as they are.
C26_PersistedConversationShape ==
    /\ [](AllIdle => \A u \in Users : HasChatbot(u) => IsConversation(file[u]))
    /\ [][ConstructionStep =>
             \A u \in Users : file[u] # <<>> => file'[u] = file[u]]_vars

IsPrefix(p, t) == Len(p) <= Len(t) /\ SubSeq(t, 1, Len(p)) = p

\* C27: no update is lost: whatever the interleaving of the handlers, a
\* write to the file keeps every message the file held.
C27_NoLostUpdates ==
    [][\A u \in Users : IsPrefix(file[u], file'[u])]_vars

\* C28 as stated: for a started session, between calls, the chat history
\* list shown equals the pairs load_history_as_chatlog rebuilds from the file.
C28_UiHistoryEqualsStore ==
    \A u \in Users :
        (ui[u].open /\ AllIdle) =>
            ui[u].chatbot_history = load_history_as_chatlog(file, u)

ShowsHistoryRequest(u) ==
    \E i \in DOMAIN ui[u].chatbot_history : IsHistoryRequest(ui[u].chatbot_history[i][1])

\* C28: for a started session none of whose submitted texts was a history
\* request, between calls, the chat history list shown equals the pairs
\* load_history_as_chatlog rebuilds from the file.
C28_UiHistoryEqualsStoreOfQuestions ==
    \A u \in Users :
        (ui[u].open /\ AllIdle /\ ~ShowsHistoryRequest(u)) =>
            ui[u].chatbot_history = load_history_as_chatlog(file, u)

\* two questions asked and answered in one session
C28_Witness ==
    \E u \in Users :
        /\ ui[u].open
        /\ AllIdle
        /\ Len(ui[u].chatbot_history) = 2
        /\ ui[u].chatbot_history[2] = <<PlainInput, RagAnswer>>
        /\ ui[u].chatbot_history = load_history_as_chatlog(file, u)

====
